---- MODULE Spec2Model ----
(***************************************************************************)
(* medassist: the upload / stream handlers of server/app.py (server/main.py *)
(* repeats them) and the vector-index functions of server/create_db.py,     *)
(* as a state machine of request threads over one browser session, the     *)
(* session directories on disk and the process-wide chroma_lock.           *)
(***************************************************************************)
EXTENDS Integers, Sequences, FiniteSets, TLC

\* ------------------------------------------------------------------ bounds
MaxSessions == 2       \* uuid4() values drawn in one run
MaxUnlocked == 1       \* directory operations made by code outside the request threads
MaxRequests == 3       \* upload / stream / reset requests served in one run
MaxFrags == 2          \* fragments one completion stream yields
MaxResp == 2           \* articles in one response of a bibliographic service

\* ------------------------------------------------------- program constants
MaxDeleteAttempts == 5 \* create_db.py:26  for _ in range(5)
K == 5                 \* app.py:365       query_collection(..., k=5)

\* request worker threads (app.run(threaded=True))
Threads == {1, 2}
NoThread == 0
Paths == 1..MaxSessions

Files == {"a.pdf", "b.pdf"}
NoFile == ""

\* text is a sequence of characters; "" is <<>>
Messages == {<<"q">>}
NoMessage == <<>>
Fragments == {<<>>, <<"x">>, <<" ">>}

Min(a, b) == IF a <= b THEN a ELSE b

IsPrefix(s, t) == Len(s) <= Len(t) /\ SubSeq(t, 1, Len(s)) = s

\* load_documents + split_text: the chunks of one stored file
ChunksOfFile(f) == IF f = "a.pdf" THEN {"a1", "a2"} ELSE IF f = "b.pdf" THEN {"b1"} ELSE {}

\* generate_data_store: documents of every file in the data directory, split
ChunksOfDir(files) == UNION {ChunksOfFile(f) : f \in files}

\* similarity_search(query_text, k): the k nearest chunks, all of them when
\* the collection holds fewer than k
TopK(S, k) == {R \in SUBSET S : Cardinality(R) = Min(k, Cardinality(S))}

\* the session dict of a request that carries no session cookie
EmptySession ==
  [session_id |-> 0, DATA_PATH |-> 0, CHROMA_PATH |-> 0, history |-> <<>>,
   uploaded_files |-> <<>>, has_documents |-> FALSE]

\* the session written by initialize_session / reset_session / handle_upload
NewSession(id) ==
  [session_id |-> id, DATA_PATH |-> id, CHROMA_PATH |-> id, history |-> <<>>,
   uploaded_files |-> <<>>, has_documents |-> FALSE]

NoDir == [exists |-> FALSE, content |-> {}]
EmptyDir == [exists |-> TRUE, content |-> {}]

\* ------------------------------------------------- search_similar_articles

\* str.lower() on a sequence of characters
LowerChar(c) ==
  CASE c = "A" -> "a"
    [] c = "B" -> "b"
    [] OTHER -> c

Lower(s) == [i \in 1..Len(s) |-> LowerChar(s[i])]

\* str.strip() on a sequence of characters
RECURSIVE LStrip(_)
LStrip(s) == IF s # <<>> /\ Head(s) = " " THEN LStrip(Tail(s)) ELSE s

RECURSIVE RStrip(_)
RStrip(s) ==
  IF s # <<>> /\ s[Len(s)] = " " THEN RStrip(SubSeq(s, 1, Len(s) - 1)) ELSE s

Strip(s) == LStrip(RStrip(s))

\* sub in s, for strings
Contains(s, sub) ==
  \E i \in 0..(Len(s) - Len(sub)) : SubSeq(s, i + 1, i + Len(sub)) = sub

\* lst[:n]
Take(lst, n) == SubSeq(lst, 1, Min(n, Len(lst)))

\* title_lower that keeps the case of the title
title_lower_keeps_case(article) == Strip(article.title)

\* add_unique_articles: title_lower = article["title"].lower().strip()
title_lower(article) == Strip(Lower(article.title))

\* seen_titles holds the title_lower of every article in all_articles
seen_titles(all_articles) ==
  {title_lower(all_articles[i]) : i \in 1..Len(all_articles)}

\* add_unique_articles: the test under which an article is skipped
Skipped(all_articles, article, uploaded_title) ==
  \/ title_lower(article) \in seen_titles(all_articles)
  \/ /\ uploaded_title # <<>>
     /\ Contains(title_lower(article), Strip(Lower(uploaded_title)))

\* add_unique_articles(articles, source), run on all_articles
RECURSIVE add_unique_articles(_, _, _)
add_unique_articles(all_articles, articles, uploaded_title) ==
  IF articles = <<>> THEN all_articles
  ELSE add_unique_articles(
         IF Skipped(all_articles, Head(articles), uploaded_title) THEN all_articles
         ELSE Append(all_articles, Head(articles)),
         Tail(articles), uploaded_title)

\* what one bibliographic service call gives: the request fails (error status,
\* time-out, bad JSON), or a list of titles comes back
FailedResponse == [ok |-> FALSE, titles |-> <<>>]
Response(titles) == [ok |-> TRUE, titles |-> titles]

\* ArticlesOf with the articles taken from the response last to first
ArticlesOf_reversed(response, source) ==
  [i \in 1..Len(response.titles) |->
     [title |-> response.titles[Len(response.titles) + 1 - i], link |-> source]]

\* the article dicts built from a response; link stands for the authors and
\* link fields, which name the service the article came from
ArticlesOf(response, source) ==
  [i \in 1..Len(response.titles) |-> [title |-> response.titles[i], link |-> source]]

\* no search_similar_articles call was made
NoSearch ==
  [stage |-> "none", keywords |-> <<>>, uploaded_title |-> <<>>,
   all_articles |-> <<>>, contacted |-> <<>>, failed |-> {}, offered |-> 0, result |-> <<>>]

\* search_similar_articles up to its first service call: a keyword list that
\* is empty or all blank returns [] at once
SearchStart(keywords, uploaded_title) ==
  LET valid == \E i \in 1..Len(keywords) : Strip(keywords[i]) # <<>>
  IN [stage |-> IF valid THEN "s2_and" ELSE "returned",
      keywords |-> keywords, uploaded_title |-> uploaded_title,
      all_articles |-> <<>>, contacted |-> <<>>, failed |-> {}, offered |-> 0, result |-> <<>>]

\* SearchStage that returns every article it has, however many
SearchStage_returns_all(st, source, response, next) ==
  LET all == IF response.ok
               THEN add_unique_articles(st.all_articles, ArticlesOf(response, source),
                                        st.uploaded_title)
               ELSE st.all_articles
      stop == Len(all) >= 5 \/ next = "returned"
  IN [st EXCEPT !.all_articles = all,
                !.contacted = Append(@, source),
                !.failed = IF response.ok THEN @ ELSE @ \cup {source},
                !.offered = @ + Len(response.titles),
                !.stage = IF stop THEN "returned" ELSE next,
                !.result = IF stop THEN all ELSE <<>>]

\* SearchStage where a failed service call ends the search with nothing
SearchStage_failure_ends_search(st, source, response, next) ==
  LET all == IF response.ok
               THEN add_unique_articles(st.all_articles, ArticlesOf(response, source),
                                        st.uploaded_title)
               ELSE <<>>
      stop == Len(all) >= 5 \/ next = "returned" \/ ~response.ok
  IN [st EXCEPT !.all_articles = all,
                !.contacted = Append(@, source),
                !.failed = IF response.ok THEN @ ELSE @ \cup {source},
                !.offered = @ + Len(response.titles),
                !.stage = IF stop THEN "returned" ELSE next,
                !.result = IF stop THEN Take(all, 5) ELSE <<>>]

\* SearchStage without the return after the Semantic Scholar stages
SearchStage_no_early_return(st, source, response, next) ==
  LET all == IF response.ok
               THEN add_unique_articles(st.all_articles, ArticlesOf(response, source),
                                        st.uploaded_title)
               ELSE st.all_articles
      stop == next = "returned"
  IN [st EXCEPT !.all_articles = all,
                !.contacted = Append(@, source),
                !.failed = IF response.ok THEN @ ELSE @ \cup {source},
                !.offered = @ + Len(response.titles),
                !.stage = IF stop THEN "returned" ELSE next,
                !.result = IF stop THEN Take(all, 5) ELSE <<>>]

\* one stage of search_similar_articles: the service is called; a failure is
\* logged; then, for the two Semantic Scholar stages, the function returns the
\* first 5 articles when it has 5 or more; the PubMed stage always returns.
\* contacted, failed and offered record the services called, those whose call
\* failed, and how many articles the responses held
SearchStage(st, source, response, next) ==
  LET all == IF response.ok
               THEN add_unique_articles(st.all_articles, ArticlesOf(response, source),
                                        st.uploaded_title)
               ELSE st.all_articles
      stop == Len(all) >= 5 \/ next = "returned"
  IN [st EXCEPT !.all_articles = all,
                !.contacted = Append(@, source),
                !.failed = IF response.ok THEN @ ELSE @ \cup {source},
                !.offered = @ + Len(response.titles),
                !.stage = IF stop THEN "returned" ELSE next,
                !.result = IF stop THEN Take(all, 5) ELSE <<>>]

\* 1. Semantic Scholar (AND logic)
SemanticScholarAnd(st, response) == SearchStage(st, "s2_and", response, "s2_or")

\* 2. Semantic Scholar (OR logic)
SemanticScholarOr(st, response) == SearchStage(st, "s2_or", response, "pubmed")

\* 3. PubMed
PubMed(st, response) == SearchStage(st, "pubmed", response, "returned")

\* search_similar_articles(keywords, uploaded_title) with the responses the
\* three service calls would give
search_similar_articles(keywords, uploaded_title, r1, r2, r3) ==
  LET s0 == SearchStart(keywords, uploaded_title)
      s1 == IF s0.stage = "s2_and" THEN SemanticScholarAnd(s0, r1) ELSE s0
      s2 == IF s1.stage = "s2_or" THEN SemanticScholarOr(s1, r2) ELSE s1
      s3 == IF s2.stage = "pubmed" THEN PubMed(s2, r3) ELSE s2
  IN s3

\* extract_keywords_with_openai: the reply is split at ", ", each part
\* stripped, empty parts dropped; any failure gives []
RECURSIVE StripAll(_)
StripAll(parts) ==
  IF parts = <<>> THEN <<>>
  ELSE IF Strip(Head(parts)) = <<>> THEN StripAll(Tail(parts))
  ELSE <<Strip(Head(parts))>> \o StripAll(Tail(parts))

\* the completion call of extract_keywords_with_openai fails, or its reply
\* splits at ", " into these parts
FailedReply == [ok |-> FALSE, parts |-> <<>>]
Reply(parts) == [ok |-> TRUE, parts |-> parts]

extract_keywords_with_openai(reply) == IF reply.ok THEN StripAll(reply.parts) ELSE <<>>

\* what an upload got from extract_title_and_abstract (the title is kept in
\* title), from the completion call and from the three service calls
NoAnswers == [abstract |-> <<>>, reply |-> FailedReply, responses |-> <<>>]
Answers(abstract, reply, r1, r2, r3) ==
  [abstract |-> abstract, reply |-> reply, responses |-> <<r1, r2, r3>>]

\* no upload was answered 200 yet
NoUpload ==
  [file |-> NoFile, title |-> <<>>, answers |-> NoAnswers, keywords |-> <<>>,
   similar_articles |-> <<>>]

VARIABLES
  cookie,         \* the session cookie the browser holds (Flask's signed cookie session)
  nextId,         \* next uuid4() value
  reqCount,       \* requests started
  unlocked,       \* directory operations made so far outside the request threads
  built,          \* path -> chunks given to the last save_to_chroma that returned
  dataDir,        \* DATA_PATH directories: path -> [exists, content: files]
  chromaDir,      \* CHROMA_PATH directories: path -> [exists, content: chunks]
  chroma_lock,    \* holder of create_db.chroma_lock, NoThread when free
  pc,             \* position of each request thread
  session,        \* the session object of the thread's current request
  modified,       \* session.modified of that object
  uploaded_file,  \* request.files.get('file')
  chunks,         \* chunks handed to save_to_chroma
  attempts,       \* safe_delete_chroma: rmtree attempts made so far in the loop
  fails,          \* of these, attempts that failed with EBUSY/EACCES/EPERM
  exc,            \* exception raised in the current request, "" when none
  status,         \* how the thread's last request ended
  user_message,   \* request.args.get("message")
  history,        \* stream_response: history = session.get('history', [])
  relevant_docs,  \* result of query_collection
  embedCalls,     \* embedding / vector-store calls made by query_collection
  full_response,  \* fragments collected by generate()
  events,         \* server-sent events yielded by generate()
  title,          \* handle_upload: title extracted from the uploaded file
  keywords,       \* handle_upload: keywords of the response
  similar_articles, \* handle_upload: similar_articles of the response
  search,         \* the search_similar_articles call of the thread: its arguments,
                  \* all_articles, the services contacted, the stage it is at
  answers,        \* handle_upload: what extraction and the services gave this upload
  lastUpload      \* the upload answered 200 last: its file, answers and response

vars ==
  <<cookie, nextId, reqCount, unlocked, built, dataDir, chromaDir, chroma_lock, pc, session,
    modified, uploaded_file, chunks, attempts, fails, exc, status, user_message, history,
    relevant_docs, embedCalls, full_response, events, title, keywords,
    similar_articles, search, answers, lastUpload>>

saveVars == <<chunks, attempts, fails, built, modified>>
streamVars ==
  <<user_message, history, relevant_docs, embedCalls, full_response, events>>
searchVars == <<title, keywords, similar_articles, search, answers, lastUpload>>

Init ==
  /\ cookie = EmptySession
  /\ nextId = 1
  /\ reqCount = 0
  /\ unlocked = 0
  /\ built = [p \in Paths |-> {}]
  /\ dataDir = [p \in Paths |-> NoDir]
  /\ chromaDir = [p \in Paths |-> NoDir]
  /\ chroma_lock = NoThread
  /\ pc = [t \in Threads |-> "idle"]
  /\ session = [t \in Threads |-> EmptySession]
  /\ modified = [t \in Threads |-> FALSE]
  /\ uploaded_file = [t \in Threads |-> NoFile]
  /\ chunks = [t \in Threads |-> {}]
  /\ attempts = [t \in Threads |-> 0]
  /\ fails = [t \in Threads |-> 0]
  /\ exc = [t \in Threads |-> ""]
  /\ status = [t \in Threads |-> ""]
  /\ user_message = [t \in Threads |-> NoMessage]
  /\ history = [t \in Threads |-> <<>>]
  /\ relevant_docs = [t \in Threads |-> {}]
  /\ embedCalls = [t \in Threads |-> 0]
  /\ full_response = [t \in Threads |-> <<>>]
  /\ events = [t \in Threads |-> <<>>]
  /\ title = [t \in Threads |-> <<>>]
  /\ keywords = [t \in Threads |-> <<>>]
  /\ similar_articles = [t \in Threads |-> <<>>]
  /\ search = [t \in Threads |-> NoSearch]
  /\ answers = [t \in Threads |-> NoAnswers]
  /\ lastUpload = NoUpload

\* ---------------------------------------------------------------- requests

\* a request may be taken up: the thread is free and the run has budget left
CanStart(t) == pc[t] = "idle" /\ reqCount < MaxRequests

\* @app.before_request initialize_session, applied to the cookie's session
initialize_session(s) == IF s.session_id = 0 THEN NewSession(nextId) ELSE s

\* the next unused uuid4() value once initialize_session has run on s
FreshId(s) == IF s.session_id = 0 THEN nextId + 1 ELSE nextId

\* handle_upload returns: its locals and the request's session object are gone
DropUploadLocals(t) ==
  /\ exc' = [exc EXCEPT ![t] = ""]
  /\ session' = [session EXCEPT ![t] = EmptySession]
  /\ chunks' = [chunks EXCEPT ![t] = {}]
  /\ attempts' = [attempts EXCEPT ![t] = 0]
  /\ fails' = [fails EXCEPT ![t] = 0]
  /\ uploaded_file' = [uploaded_file EXCEPT ![t] = NoFile]
  /\ modified' = [modified EXCEPT ![t] = FALSE]
  /\ built' = built

\* os.makedirs(path, exist_ok=True)
makedirs(dir, p) == IF dir[p].exists THEN dir ELSE [dir EXCEPT ![p] = EmptyDir]

\* serve: GET / -- only before_request touches the session
Serve(t) ==
  /\ pc[t] = "idle"
  /\ cookie.session_id = 0
  /\ nextId <= MaxSessions
  /\ cookie' = initialize_session(cookie)
  /\ nextId' = nextId + 1
  /\ status' = [status EXCEPT ![t] = "200"]
  /\ UNCHANGED <<reqCount, unlocked, dataDir, chromaDir, chroma_lock, pc, session,
                 uploaded_file, exc>>
  /\ UNCHANGED <<saveVars, streamVars>>
  /\ UNCHANGED searchVars

\* reset_session: the session is replaced by a fresh one
ResetSession(t) ==
  /\ CanStart(t)
  /\ FreshId(cookie) <= MaxSessions
  /\ cookie' = NewSession(FreshId(cookie))
  /\ nextId' = FreshId(cookie) + 1
  /\ reqCount' = reqCount + 1
  /\ status' = [status EXCEPT ![t] = "reset"]
  /\ UNCHANGED <<unlocked, dataDir, chromaDir, chroma_lock, pc, session, uploaded_file,
                 exc>>
  /\ UNCHANGED <<saveVars, streamVars>>
  /\ UNCHANGED searchVars

\* UploadSession where the new session keeps the directories of the old one
UploadSession_keeps_paths(s, id) ==
  IF s.has_documents
    THEN [NewSession(id) EXCEPT !.DATA_PATH = s.DATA_PATH, !.CHROMA_PATH = s.CHROMA_PATH]
    ELSE s

\* handle_upload, first lines: a session that has a document is replaced
UploadSession(s, id) == IF s.has_documents THEN NewSession(id) ELSE s

\* handle_upload up to the file check: session replacement when a document is
\* already indexed, makedirs of both paths, then the 400 for a missing file
UploadEnter(t, f) ==
  /\ CanStart(t)
  /\ LET s0 == initialize_session(cookie)
         id0 == FreshId(cookie)
         s1 == UploadSession(s0, id0)
         used == IF s0.has_documents THEN id0 + 1 ELSE id0
     IN /\ used <= MaxSessions + 1
        /\ nextId' = used
        /\ dataDir' = makedirs(dataDir, s1.DATA_PATH)
        /\ chromaDir' = makedirs(chromaDir, s1.CHROMA_PATH)
        /\ IF f = NoFile
             THEN /\ cookie' = s1
                  /\ status' = [status EXCEPT ![t] = "400"]
                  /\ UNCHANGED <<pc, session, modified>>
             ELSE /\ cookie' = cookie
                  /\ status' = [status EXCEPT ![t] = ""]
                  /\ session' = [session EXCEPT ![t] = s1]
                  /\ modified' = [modified EXCEPT ![t] = (s1 # cookie)]
                  /\ pc' = [pc EXCEPT ![t] = "up_rmdata"]
  /\ reqCount' = reqCount + 1
  /\ uploaded_file' = [uploaded_file EXCEPT ![t] = f]
  /\ UNCHANGED <<unlocked, chroma_lock, exc, chunks, attempts, fails, built>>
  /\ UNCHANGED streamVars
  /\ UNCHANGED searchVars

\* outcomes of one shutil.rmtree call: done, OSError with errno EBUSY / EACCES /
\* EPERM, OSError with any other errno
RmtreeOutcomes == {"ok", "locked", "oserror"}

\* save_session at the end of a request: the cookie is set when the session
\* object was modified
SavedSession(t) == IF modified[t] THEN session[t] ELSE cookie

\* an exception that leaves handle_upload outside its try block: Flask answers
\* 500 and still saves the session
UploadUnhandled(t) ==
  /\ status' = [status EXCEPT ![t] = "500"]
  /\ cookie' = SavedSession(t)
  /\ pc' = [pc EXCEPT ![t] = "idle"]
  /\ DropUploadLocals(t)

\* handle_upload: if os.path.exists(DATA_PATH): shutil.rmtree(DATA_PATH), then
\* os.path.exists(CHROMA_PATH), which decides whether rmtree(CHROMA_PATH) starts
UploadRmData(t, outcome) ==
  /\ pc[t] = "up_rmdata"
  /\ LET p == session[t].DATA_PATH
         to == IF chromaDir[session[t].CHROMA_PATH].exists THEN "up_rmchroma"
               ELSE "up_mkdirs"
     IN IF outcome = "ok" \/ ~dataDir[p].exists
          THEN /\ outcome = "ok"
               /\ dataDir' = [dataDir EXCEPT ![p] = NoDir]
               /\ pc' = [pc EXCEPT ![t] = to]
               /\ UNCHANGED <<status, cookie, uploaded_file, session, exc>>
               /\ UNCHANGED saveVars
          ELSE /\ UploadUnhandled(t)
               /\ UNCHANGED dataDir
  /\ UNCHANGED <<nextId, reqCount, unlocked, chromaDir, chroma_lock>>
  /\ UNCHANGED streamVars
  /\ UNCHANGED searchVars

\* handle_upload: shutil.rmtree(CHROMA_PATH), running since UploadRmData, ends;
\* chroma_lock is not taken
UploadRmChroma(t, outcome) ==
  /\ pc[t] = "up_rmchroma"
  /\ LET p == session[t].CHROMA_PATH
     IN IF outcome = "ok" /\ chromaDir[p].exists
          THEN /\ chromaDir' = [chromaDir EXCEPT ![p] = NoDir]
               /\ pc' = [pc EXCEPT ![t] = "up_mkdirs"]
               /\ UNCHANGED <<status, cookie, uploaded_file, session, exc>>
               /\ UNCHANGED saveVars
          ELSE /\ outcome = "oserror" \/ chromaDir[p].exists
               /\ outcome # "ok"
               /\ UploadUnhandled(t)
               /\ UNCHANGED chromaDir
  /\ UNCHANGED <<nextId, reqCount, unlocked, dataDir, chroma_lock>>
  /\ UNCHANGED streamVars
  /\ UNCHANGED searchVars

\* handle_upload: both makedirs, then uploaded_file.save(file_path)
UploadSaveFile(t) ==
  /\ pc[t] = "up_mkdirs"
  /\ LET d == session[t].DATA_PATH
         made == makedirs(dataDir, d)
     IN dataDir' = [made EXCEPT ![d].content = @ \cup {uploaded_file[t]}]
  /\ chromaDir' = makedirs(chromaDir, session[t].CHROMA_PATH)
  /\ pc' = [pc EXCEPT ![t] = "up_load"]
  /\ UNCHANGED <<cookie, nextId, reqCount, unlocked, chroma_lock, session, uploaded_file, exc,
                 status>>
  /\ UNCHANGED <<saveVars, streamVars>>
  /\ UNCHANGED searchVars

\* create_data -> generate_data_store: load_documents, split_text; os.listdir
\* raises when the data directory is gone
LoadDocuments(t) ==
  /\ pc[t] = "up_load"
  /\ LET d == session[t].DATA_PATH
     IN IF dataDir[d].exists
          THEN /\ chunks' = [chunks EXCEPT ![t] = ChunksOfDir(dataDir[d].content)]
               /\ pc' = [pc EXCEPT ![t] = "save_lock"]
               /\ exc' = exc
          ELSE /\ chunks' = chunks
               /\ pc' = [pc EXCEPT ![t] = "up_except"]
               /\ exc' = [exc EXCEPT ![t] = "FileNotFoundError"]
  /\ UNCHANGED <<cookie, nextId, reqCount, unlocked, dataDir, chromaDir, chroma_lock, session,
                 uploaded_file, attempts, fails, built, status>>
  /\ UNCHANGED <<modified, streamVars>>
  /\ UNCHANGED searchVars

\* ------------------------------------------------------------- create_db.py

\* Acquire without the wait: the body is entered whoever holds the lock
Acquire_unguarded(t) == chroma_lock' = t

\* with chroma_lock: (threading.Lock, blocking acquire)
Acquire(t) ==
  /\ chroma_lock = NoThread
  /\ chroma_lock' = t

\* save_to_chroma takes the lock; safe_delete_chroma: if not
\* os.path.exists(chroma_path): return
SaveAcquire(t) ==
  /\ pc[t] = "save_lock"
  /\ Acquire(t)
  /\ pc' = [pc EXCEPT ![t] =
              IF chromaDir[session[t].CHROMA_PATH].exists THEN "save_rmtree"
              ELSE "save_build"]
  /\ UNCHANGED <<cookie, nextId, reqCount, unlocked, dataDir, chromaDir, session, uploaded_file,
                 exc, status>>
  /\ UNCHANGED <<saveVars, streamVars>>
  /\ UNCHANGED searchVars

\* where safe_delete_chroma goes after an attempt that failed with a file-lock
\* errno: the next iteration, or out of the loop once range(5) is used up
AfterLocked(n) == IF n < MaxDeleteAttempts THEN "save_rmtree" ELSE "save_build"

\* AfterAttempt without the return after a successful rmtree
AfterAttempt_no_return(outcome, n) ==
  CASE outcome = "ok" -> AfterLocked(n)
    [] outcome = "locked" -> AfterLocked(n)
    [] OTHER -> "up_except"

\* AfterAttempt with every OSError taken for a file-lock error
AfterAttempt_retries_all(outcome, n) ==
  CASE outcome = "ok" -> "save_build"
    [] OTHER -> AfterLocked(n)

\* where safe_delete_chroma goes after its n-th attempt ended with the outcome
AfterAttempt(outcome, n) ==
  CASE outcome = "ok" -> "save_build"
    [] outcome = "locked" -> AfterLocked(n)
    [] OTHER -> "up_except"

\* safe_delete_chroma: one iteration of the retry loop
SafeDeleteAttempt(t, outcome) ==
  /\ pc[t] = "save_rmtree"
  /\ LET p == session[t].CHROMA_PATH
         n == attempts[t] + 1
         to == AfterAttempt(outcome, n)
     IN \* rmtree of a tree that is gone raises FileNotFoundError (ENOENT)
        /\ ~chromaDir[p].exists => outcome = "oserror"
        /\ attempts' = [attempts EXCEPT ![t] = IF to = "up_except" THEN 0 ELSE n]
        /\ fails' = [fails EXCEPT ![t] =
                       IF to = "up_except" THEN 0
                       ELSE IF outcome = "locked" THEN @ + 1 ELSE @]
        /\ chromaDir' = IF outcome = "ok" THEN [chromaDir EXCEPT ![p] = NoDir]
                        ELSE chromaDir
        /\ pc' = [pc EXCEPT ![t] = to]
        /\ exc' = [exc EXCEPT ![t] = IF to = "up_except" THEN "OSError" ELSE @]
        /\ chroma_lock' = IF to = "up_except" THEN NoThread ELSE chroma_lock
  /\ UNCHANGED <<cookie, nextId, reqCount, unlocked, dataDir, session, uploaded_file,
                 chunks, built, status>>
  /\ UNCHANGED <<modified, streamVars>>
  /\ UNCHANGED searchVars

\* Chroma.from_documents(chunks, OpenAIEmbeddings(), persist_directory): the
\* collection at the path is opened or created and the chunks are added to it
from_documents(dir, cs) == [exists |-> TRUE, content |-> dir.content \cup cs]

\* save_to_chroma: Chroma.from_documents, which an embedding-service error aborts
FromDocuments(t, ok) ==
  /\ pc[t] = "save_build"
  /\ LET p == session[t].CHROMA_PATH
     IN IF ok
          THEN /\ chromaDir' = [chromaDir EXCEPT ![p] = from_documents(@, chunks[t])]
               /\ built' = [built EXCEPT ![p] = chunks[t]]
               /\ pc' = [pc EXCEPT ![t] = "save_done"]
               /\ UNCHANGED <<exc, chroma_lock, attempts, fails>>
          ELSE /\ chromaDir' = makedirs(chromaDir, p)
               /\ pc' = [pc EXCEPT ![t] = "up_except"]
               /\ exc' = [exc EXCEPT ![t] = "EmbeddingError"]
               /\ chroma_lock' = NoThread
               /\ attempts' = [attempts EXCEPT ![t] = 0]
               /\ fails' = [fails EXCEPT ![t] = 0]
               /\ built' = built
  /\ UNCHANGED <<cookie, nextId, reqCount, unlocked, dataDir, session, uploaded_file,
                 status, chunks>>
  /\ UNCHANGED <<modified, streamVars>>
  /\ UNCHANGED searchVars

\* SaveReturn that leaves the with block without releasing the lock
SaveReturn_keeps_lock(t) ==
  /\ pc[t] = "save_done"
  /\ chroma_lock' = chroma_lock
  /\ pc' = [pc EXCEPT ![t] = "up_indexed"]
  /\ attempts' = [attempts EXCEPT ![t] = 0]
  /\ fails' = [fails EXCEPT ![t] = 0]
  /\ UNCHANGED <<cookie, nextId, reqCount, unlocked, dataDir, chromaDir, session,
                 uploaded_file, exc, status, chunks, built>>
  /\ UNCHANGED <<modified, streamVars>>
  /\ UNCHANGED searchVars

\* save_to_chroma returns: the with block releases the lock
SaveReturn(t) ==
  /\ pc[t] = "save_done"
  /\ chroma_lock' = NoThread
  /\ pc' = [pc EXCEPT ![t] = "up_indexed"]
  /\ attempts' = [attempts EXCEPT ![t] = 0]
  /\ fails' = [fails EXCEPT ![t] = 0]
  /\ UNCHANGED <<cookie, nextId, reqCount, unlocked, dataDir, chromaDir, session,
                 uploaded_file, exc, status, chunks, built>>
  /\ UNCHANGED <<modified, streamVars>>
  /\ UNCHANGED searchVars

\* UploadSearch where a failure of the keyword extraction is not caught
UploadSearch_keyword_failure_raises(t, ok, ti, abstract, reply, r1, r2, r3) ==
  /\ pc[t] = "up_indexed"
  /\ session' = [session EXCEPT ![t].uploaded_files = <<uploaded_file[t]>>,
                                ![t].has_documents = TRUE]
  /\ modified' = [modified EXCEPT ![t] = TRUE]
  /\ IF ok /\ reply.ok
       THEN LET combined_text == IF abstract # <<>> THEN ti \o <<"\n">> \o abstract ELSE ti
                kws == IF combined_text # <<>> THEN extract_keywords_with_openai(reply)
                       ELSE <<>>
                found == IF kws # <<>> THEN search_similar_articles(kws, <<>>, r1, r2, r3)
                         ELSE NoSearch
            IN /\ title' = [title EXCEPT ![t] = ti]
               /\ keywords' = [keywords EXCEPT ![t] = kws]
               /\ search' = [search EXCEPT ![t] = found]
               /\ similar_articles' = [similar_articles EXCEPT ![t] = found.result]
               /\ answers' = [answers EXCEPT ![t] = Answers(abstract, reply, r1, r2, r3)]
               /\ lastUpload' = lastUpload
               /\ pc' = [pc EXCEPT ![t] = "up_respond"]
               /\ exc' = exc
       ELSE /\ pc' = [pc EXCEPT ![t] = "up_except"]
            /\ exc' = [exc EXCEPT ![t] = "PdfError"]
            /\ UNCHANGED searchVars
  /\ UNCHANGED <<cookie, nextId, reqCount, unlocked, dataDir, chromaDir, chroma_lock,
                 uploaded_file, chunks, attempts, fails, built, status>>
  /\ UNCHANGED streamVars

\* UploadSearch that searches no articles for a file the session lists already
UploadSearch_known_file_not_searched(t, ok, ti, abstract, reply, r1, r2, r3) ==
  /\ pc[t] = "up_indexed"
  /\ session' = [session EXCEPT ![t].uploaded_files = <<uploaded_file[t]>>,
                                ![t].has_documents = TRUE]
  /\ modified' = [modified EXCEPT ![t] = TRUE]
  /\ IF ok
       THEN LET combined_text == IF abstract # <<>> THEN ti \o <<"\n">> \o abstract ELSE ti
                kws == IF combined_text # <<>> THEN extract_keywords_with_openai(reply)
                       ELSE <<>>
                found == IF kws # <<>> /\ cookie.uploaded_files # <<uploaded_file[t]>>
                           THEN search_similar_articles(kws, <<>>, r1, r2, r3)
                         ELSE NoSearch
            IN /\ title' = [title EXCEPT ![t] = ti]
               /\ keywords' = [keywords EXCEPT ![t] = kws]
               /\ search' = [search EXCEPT ![t] = found]
               /\ similar_articles' = [similar_articles EXCEPT ![t] = found.result]
               /\ answers' = [answers EXCEPT ![t] = Answers(abstract, reply, r1, r2, r3)]
               /\ lastUpload' = lastUpload
               /\ pc' = [pc EXCEPT ![t] = "up_respond"]
               /\ exc' = exc
       ELSE /\ pc' = [pc EXCEPT ![t] = "up_except"]
            /\ exc' = [exc EXCEPT ![t] = "PdfError"]
            /\ UNCHANGED searchVars
  /\ UNCHANGED <<cookie, nextId, reqCount, unlocked, dataDir, chromaDir, chroma_lock,
                 uploaded_file, chunks, attempts, fails, built, status>>
  /\ UNCHANGED streamVars

\* handle_upload after create_data: the file is recorded and has_documents set;
\* extract_title_and_abstract, which may raise into the except; keywords from
\* title and abstract; search_similar_articles(keywords) when there are keywords
UploadSearch(t, ok, ti, abstract, reply, r1, r2, r3) ==
  /\ pc[t] = "up_indexed"
  /\ session' = [session EXCEPT ![t].uploaded_files = <<uploaded_file[t]>>,
                                ![t].has_documents = TRUE]
  /\ modified' = [modified EXCEPT ![t] = TRUE]
  /\ IF ok
       THEN LET combined_text == IF abstract # <<>> THEN ti \o <<"\n">> \o abstract ELSE ti
                kws == IF combined_text # <<>> THEN extract_keywords_with_openai(reply)
                       ELSE <<>>
                found == IF kws # <<>> THEN search_similar_articles(kws, <<>>, r1, r2, r3)
                         ELSE NoSearch
            IN /\ title' = [title EXCEPT ![t] = ti]
               /\ keywords' = [keywords EXCEPT ![t] = kws]
               /\ search' = [search EXCEPT ![t] = found]
               /\ similar_articles' = [similar_articles EXCEPT ![t] = found.result]
               /\ answers' = [answers EXCEPT ![t] = Answers(abstract, reply, r1, r2, r3)]
               /\ lastUpload' = lastUpload
               /\ pc' = [pc EXCEPT ![t] = "up_respond"]
               /\ exc' = exc
       ELSE /\ pc' = [pc EXCEPT ![t] = "up_except"]
            /\ exc' = [exc EXCEPT ![t] = "PdfError"]
            /\ UNCHANGED searchVars
  /\ UNCHANGED <<cookie, nextId, reqCount, unlocked, dataDir, chromaDir, chroma_lock,
                 uploaded_file, chunks, attempts, fails, built, status>>
  /\ UNCHANGED streamVars

\* handle_upload: return jsonify(response, filename, keywords, similar_articles)
UploadFinish(t) ==
  /\ pc[t] = "up_respond"
  /\ cookie' = SavedSession(t)
  /\ status' = [status EXCEPT ![t] = "200"]
  /\ pc' = [pc EXCEPT ![t] = "idle"]
  /\ DropUploadLocals(t)
  /\ title' = [title EXCEPT ![t] = <<>>]
  /\ keywords' = [keywords EXCEPT ![t] = <<>>]
  /\ similar_articles' = [similar_articles EXCEPT ![t] = <<>>]
  /\ search' = [search EXCEPT ![t] = NoSearch]
  /\ answers' = [answers EXCEPT ![t] = NoAnswers]
  /\ lastUpload' = [file |-> uploaded_file[t], title |-> title[t], answers |-> answers[t],
                    keywords |-> keywords[t], similar_articles |-> similar_articles[t]]
  /\ UNCHANGED <<nextId, reqCount, unlocked, dataDir, chromaDir, chroma_lock>>
  /\ UNCHANGED streamVars

\* handle_upload: except Exception -> 500
UploadExcept(t) ==
  /\ pc[t] = "up_except"
  /\ status' = [status EXCEPT ![t] = "500"]
  /\ cookie' = SavedSession(t)
  /\ pc' = [pc EXCEPT ![t] = "idle"]
  /\ DropUploadLocals(t)
  /\ UNCHANGED <<nextId, reqCount, unlocked, dataDir, chromaDir, chroma_lock>>
  /\ UNCHANGED streamVars
  /\ UNCHANGED searchVars

\* -------------------------------------------------------- stream_response

\* ''.join(full_response)
RECURSIVE Join(_)
Join(frags) == IF frags = <<>> THEN <<>> ELSE Head(frags) \o Join(Tail(frags))

Event(type, content) == [type |-> type, content |-> content]

\* generate() returns: the locals of stream_response are gone
DropStreamLocals(t) ==
  /\ exc' = [exc EXCEPT ![t] = ""]
  /\ session' = [session EXCEPT ![t] = EmptySession]
  /\ user_message' = [user_message EXCEPT ![t] = NoMessage]
  /\ history' = [history EXCEPT ![t] = <<>>]
  /\ relevant_docs' = [relevant_docs EXCEPT ![t] = {}]
  /\ embedCalls' = [embedCalls EXCEPT ![t] = 0]
  /\ full_response' = [full_response EXCEPT ![t] = <<>>]
  /\ events' = [events EXCEPT ![t] = <<>>]

\* generate(): has_documents and CHROMA_PATH and os.path.exists(CHROMA_PATH)
HasIndex(s) == s.has_documents /\ s.CHROMA_PATH # 0 /\ chromaDir[s.CHROMA_PATH].exists

\* StreamEnter without the test for a missing message
StreamEnter_no_message_test(t, m) ==
  /\ CanStart(t)
  /\ FreshId(cookie) <= MaxSessions + 1
  /\ nextId' = FreshId(cookie)
  /\ cookie' = initialize_session(cookie)
  /\ reqCount' = reqCount + 1
  /\ status' = [status EXCEPT ![t] = ""]
  /\ session' = [session EXCEPT ![t] = initialize_session(cookie)]
  /\ user_message' = [user_message EXCEPT ![t] = m]
  /\ history' = [history EXCEPT ![t] = initialize_session(cookie).history]
  /\ pc' = [pc EXCEPT ![t] =
              IF HasIndex(initialize_session(cookie)) THEN "q_lock" ELSE "gen_prompt"]
  /\ UNCHANGED <<unlocked, dataDir, chromaDir, chroma_lock, uploaded_file, exc,
                 relevant_docs, embedCalls, full_response, events>>
  /\ UNCHANGED saveVars
  /\ UNCHANGED searchVars

\* stream_response: the message check, the reads of the session, and the
\* Response returned around generate(); the session is saved with the response
\* headers, before generate() runs; generate() starts with the index test
StreamEnter(t, m) ==
  /\ CanStart(t)
  /\ FreshId(cookie) <= MaxSessions + 1
  /\ nextId' = FreshId(cookie)
  /\ cookie' = initialize_session(cookie)
  /\ reqCount' = reqCount + 1
  /\ IF m = NoMessage
       THEN /\ status' = [status EXCEPT ![t] = "no_message"]
            /\ UNCHANGED <<pc, session, user_message, history>>
       ELSE /\ status' = [status EXCEPT ![t] = ""]
            /\ session' = [session EXCEPT ![t] = initialize_session(cookie)]
            /\ user_message' = [user_message EXCEPT ![t] = m]
            /\ history' = [history EXCEPT ![t] = initialize_session(cookie).history]
            /\ pc' = [pc EXCEPT ![t] =
                        IF HasIndex(initialize_session(cookie)) THEN "q_lock"
                        ELSE "gen_prompt"]
  /\ UNCHANGED <<unlocked, dataDir, chromaDir, chroma_lock, uploaded_file, exc,
                 relevant_docs, embedCalls, full_response, events>>
  /\ UNCHANGED saveVars
  /\ UNCHANGED searchVars

\* QueryAcquire without the os.path.exists test: the store is always opened
QueryAcquire_no_exists_test(t) ==
  /\ pc[t] = "q_lock"
  /\ Acquire(t)
  /\ pc' = [pc EXCEPT ![t] = "q_read"]
  /\ embedCalls' = [embedCalls EXCEPT ![t] = @ + 1]
  /\ relevant_docs' = [relevant_docs EXCEPT ![t] = {}]
  /\ UNCHANGED <<cookie, nextId, reqCount, unlocked, dataDir, chromaDir, session,
                 uploaded_file, exc, status, user_message, history, full_response,
                 events>>
  /\ UNCHANGED saveVars
  /\ UNCHANGED searchVars

\* query_collection takes the lock; if not os.path.exists(chroma_path): return []
\* else Chroma(persist_directory, embedding_function) is opened
QueryAcquire(t) ==
  /\ pc[t] = "q_lock"
  /\ Acquire(t)
  /\ IF chromaDir[session[t].CHROMA_PATH].exists
       THEN /\ pc' = [pc EXCEPT ![t] = "q_read"]
            /\ embedCalls' = [embedCalls EXCEPT ![t] = @ + 1]
       ELSE /\ pc' = [pc EXCEPT ![t] = "q_done"]
            /\ embedCalls' = embedCalls
  /\ relevant_docs' = [relevant_docs EXCEPT ![t] = {}]
  /\ UNCHANGED <<cookie, nextId, reqCount, unlocked, dataDir, chromaDir, session,
                 uploaded_file, exc, status, user_message, history, full_response,
                 events>>
  /\ UNCHANGED saveVars
  /\ UNCHANGED searchVars

\* generate(): except Exception as e: yield the error event
YieldError(t, e) ==
  /\ exc' = [exc EXCEPT ![t] = e]
  /\ events' = [events EXCEPT ![t] = Append(@, Event("error", <<>>))]
  /\ pc' = [pc EXCEPT ![t] = "gen_except"]

\* query_collection: db.similarity_search(query_text, k=k), which an
\* embedding-service error aborts; the exception leaves the with block
SimilaritySearch(t, ok) ==
  /\ pc[t] = "q_read"
  /\ IF ok
       THEN /\ \E R \in TopK(chromaDir[session[t].CHROMA_PATH].content, K) :
                 relevant_docs' = [relevant_docs EXCEPT ![t] = R]
            /\ embedCalls' = [embedCalls EXCEPT ![t] = @ + 1]
            /\ pc' = [pc EXCEPT ![t] = "q_done"]
            /\ UNCHANGED <<chroma_lock, exc, events>>
       ELSE /\ chroma_lock' = NoThread
            /\ YieldError(t, "EmbeddingError")
            /\ UNCHANGED <<relevant_docs, embedCalls>>
  /\ UNCHANGED <<cookie, nextId, reqCount, unlocked, dataDir, chromaDir, session,
                 uploaded_file, status, user_message, history, full_response>>
  /\ UNCHANGED saveVars
  /\ UNCHANGED searchVars

\* query_collection returns: the with block releases the lock
QueryReturn(t) ==
  /\ pc[t] = "q_done"
  /\ chroma_lock' = NoThread
  /\ pc' = [pc EXCEPT ![t] = "gen_prompt"]
  /\ UNCHANGED <<cookie, nextId, reqCount, unlocked, dataDir, chromaDir, session,
                 uploaded_file, exc, status>>
  /\ UNCHANGED <<saveVars, streamVars>>
  /\ UNCHANGED searchVars

\* format_history: one "User: ..." or "Assistant: ..." line for each message of
\* history[1:]
format_history(h) ==
  [i \in 1..(Len(h) - 1) |->
     [role |-> IF h[i + 1].role = "user" THEN "User" ELSE "Assistant",
      content |-> h[i + 1].content]]

Section(label, body) == [label |-> label, body |-> body]

\* prompt_sections with the question put first
prompt_sections_question_first(t) ==
  <<Section("USER QUESTION", user_message[t])>>
  \o (IF relevant_docs[t] # {}
        THEN <<Section("DOCUMENT CONTEXT", relevant_docs[t])>> ELSE <<>>)
  \o (IF history[t] # <<>>
        THEN <<Section("CONVERSATION HISTORY", format_history(history[t]))>> ELSE <<>>)

\* generate(): prompt_sections, which "\n\n".join makes the final prompt
prompt_sections(t) ==
  (IF relevant_docs[t] # {}
     THEN <<Section("DOCUMENT CONTEXT", relevant_docs[t])>> ELSE <<>>)
  \o (IF history[t] # <<>>
        THEN <<Section("CONVERSATION HISTORY", format_history(history[t]))>> ELSE <<>>)
  \o <<Section("USER QUESTION", user_message[t])>>

\* the prompt of the completion call the thread has made; the locals it is
\* built from stay as they were until generate() ends
final_prompt(t) == prompt_sections(t)

\* generate() assembles the prompt and calls
\* client.chat.completions.create(stream=True)
CreateCompletion(t, ok) ==
  /\ pc[t] = "gen_prompt"
  /\ IF ok
       THEN /\ pc' = [pc EXCEPT ![t] = "gen_stream"]
            /\ UNCHANGED <<exc, events>>
       ELSE YieldError(t, "APIError")
  /\ UNCHANGED <<cookie, nextId, reqCount, unlocked, dataDir, chromaDir, chroma_lock,
                 session, uploaded_file, status, user_message, history, relevant_docs,
                 embedCalls, full_response>>
  /\ UNCHANGED saveVars
  /\ UNCHANGED searchVars

\* generate(): for chunk in stream -- one fragment arrives
StreamChunk(t, content) ==
  /\ pc[t] = "gen_stream"
  /\ Len(full_response[t]) < MaxFrags
  /\ IF content # <<>>
       THEN /\ events' = [events EXCEPT ![t] = Append(@, Event("stream", content))]
            /\ full_response' = [full_response EXCEPT ![t] = Append(@, content)]
       ELSE UNCHANGED <<events, full_response>>
  /\ UNCHANGED <<cookie, nextId, reqCount, unlocked, dataDir, chromaDir, chroma_lock, pc,
                 session, uploaded_file, exc, status, user_message, history,
                 relevant_docs, embedCalls>>
  /\ UNCHANGED saveVars
  /\ UNCHANGED searchVars

\* generate(): markdown_response = ''.join(full_response).strip()
markdown_response(t) == Strip(Join(full_response[t]))

\* Turn with the assistant's message put first
Turn_assistant_first(t) ==
  <<[role |-> "assistant", content |-> markdown_response(t)],
    [role |-> "user", content |-> user_message[t]]>>

\* the (user, assistant) pair generate() appends
Turn(t) ==
  <<[role |-> "user", content |-> user_message[t]],
    [role |-> "assistant", content |-> markdown_response(t)]>>

\* generate(): session['history'] = session.get('history', []) + [user, assistant]
AppendedHistory(t) == session[t].history \o Turn(t)

\* StreamFail that records the failed turn in the session all the same
StreamFail_appends_turn(t) ==
  /\ pc[t] = "gen_stream"
  /\ YieldError(t, "APIError")
  /\ session' = [session EXCEPT ![t].history = AppendedHistory(t)]
  /\ UNCHANGED <<cookie, nextId, reqCount, unlocked, dataDir, chromaDir, chroma_lock,
                 uploaded_file, status, user_message, history, relevant_docs,
                 embedCalls, full_response>>
  /\ UNCHANGED saveVars
  /\ UNCHANGED searchVars

\* generate(): the stream raises while it is iterated
StreamFail(t) ==
  /\ pc[t] = "gen_stream"
  /\ YieldError(t, "APIError")
  /\ UNCHANGED <<cookie, nextId, reqCount, unlocked, dataDir, chromaDir, chroma_lock,
                 session, uploaded_file, status, user_message, history, relevant_docs,
                 embedCalls, full_response>>
  /\ UNCHANGED saveVars
  /\ UNCHANGED searchVars

\* StreamEnd whose final event carries the concatenation as it is, untrimmed
StreamEnd_untrimmed(t) ==
  /\ pc[t] = "gen_stream"
  /\ events' = [events EXCEPT ![t] = Append(@, Event("final", Join(full_response[t])))]
  /\ pc' = [pc EXCEPT ![t] = "gen_final"]
  /\ UNCHANGED <<cookie, nextId, reqCount, unlocked, dataDir, chromaDir, chroma_lock,
                 session, uploaded_file, exc, status, user_message, history,
                 relevant_docs, embedCalls, full_response>>
  /\ UNCHANGED saveVars
  /\ UNCHANGED searchVars

\* generate(): the stream is exhausted; the final event is yielded
StreamEnd(t) ==
  /\ pc[t] = "gen_stream"
  /\ events' = [events EXCEPT ![t] = Append(@, Event("final", markdown_response(t)))]
  /\ pc' = [pc EXCEPT ![t] = "gen_final"]
  /\ UNCHANGED <<cookie, nextId, reqCount, unlocked, dataDir, chromaDir, chroma_lock,
                 session, uploaded_file, exc, status, user_message, history,
                 relevant_docs, embedCalls, full_response>>
  /\ UNCHANGED saveVars
  /\ UNCHANGED searchVars

\* generate() resumes after the final event and appends the turn to the
\* request's session. The cookie session was serialised when the response
\* started; whether this later write reaches the client depends on the session
\* interface saving once more, so both outcomes are kept
AppendHistory(t, saved) ==
  /\ pc[t] = "gen_final"
  /\ cookie' = IF saved THEN [session[t] EXCEPT !.history = AppendedHistory(t)]
               ELSE cookie
  /\ status' = [status EXCEPT ![t] = "final"]
  /\ pc' = [pc EXCEPT ![t] = "idle"]
  /\ DropStreamLocals(t)
  /\ UNCHANGED <<nextId, reqCount, unlocked, dataDir, chromaDir, chroma_lock,
                 uploaded_file>>
  /\ UNCHANGED saveVars
  /\ UNCHANGED searchVars

\* generate(): after the error event, app.logger.error and the generator ends
GenerateExcept(t) ==
  /\ pc[t] = "gen_except"
  /\ status' = [status EXCEPT ![t] = "error"]
  /\ pc' = [pc EXCEPT ![t] = "idle"]
  /\ DropStreamLocals(t)
  /\ UNCHANGED <<cookie, nextId, reqCount, unlocked, dataDir, chromaDir, chroma_lock,
                 uploaded_file>>
  /\ UNCHANGED saveVars
  /\ UNCHANGED searchVars

\* the client disconnects while generate() is suspended at a yield: the
\* generator is closed (GeneratorExit is no Exception)
StreamAbandon(t) ==
  /\ \/ pc[t] = "gen_stream" /\ events[t] # <<>>
     \/ pc[t] = "gen_final"
  /\ status' = [status EXCEPT ![t] = "abandoned"]
  /\ pc' = [pc EXCEPT ![t] = "idle"]
  /\ DropStreamLocals(t)
  /\ UNCHANGED <<cookie, nextId, reqCount, unlocked, dataDir, chromaDir, chroma_lock,
                 uploaded_file>>
  /\ UNCHANGED saveVars
  /\ UNCHANGED searchVars

\* cleanup_old_sessions: shutil.rmtree(session_path, ignore_errors=True) on a
\* session directory not modified for 5 minutes; chroma_lock is not taken
CleanupOldSession(p) ==
  /\ unlocked < MaxUnlocked
  /\ unlocked' = unlocked + 1
  /\ dataDir[p].exists \/ chromaDir[p].exists
  /\ dataDir' = [dataDir EXCEPT ![p] = NoDir]
  /\ chromaDir' = [chromaDir EXCEPT ![p] = NoDir]
  /\ UNCHANGED <<cookie, nextId, reqCount, chroma_lock, pc, session, uploaded_file,
                 exc, status>>
  /\ UNCHANGED <<saveVars, streamVars>>
  /\ UNCHANGED searchVars

\* what extract_title_and_abstract finds in the uploaded file
DocTitles == {<<>>, <<"a">>}
Abstracts == {<<>>, <<"x">>}

\* replies of the completion call of extract_keywords_with_openai
KeywordReplies == {FailedReply, Reply(<<<<" ">>>>), Reply(<<<<"a">>, <<"b", " ">>, <<"c">>>>)}

\* responses of the bibliographic services to an upload's search
UploadResponses == {FailedResponse, Response(<<<<"d">>, <<"A", "b">>>>)}

\* the services answer only when keywords were extracted
ResponsesTo(reply) ==
  IF extract_keywords_with_openai(reply) = <<>> THEN {FailedResponse} ELSE UploadResponses

\* the request handlers, run by the worker threads; the services behind an
\* upload's keyword extraction and article search are down here, UploadNext
\* has them answer
Next ==
  \E t \in Threads :
       \/ Serve(t)
       \/ ResetSession(t)
       \/ \E f \in Files \cup {NoFile} : UploadEnter(t, f)
       \/ \E o \in RmtreeOutcomes : UploadRmData(t, o)
       \/ \E o \in RmtreeOutcomes : UploadRmChroma(t, o)
       \/ UploadSaveFile(t)
       \/ LoadDocuments(t)
       \/ SaveAcquire(t)
       \/ \E o \in RmtreeOutcomes : SafeDeleteAttempt(t, o)
       \/ \E ok \in BOOLEAN : FromDocuments(t, ok)
       \/ SaveReturn(t)
       \/ \E ok \in BOOLEAN :
            UploadSearch(t, ok, <<"a">>, <<>>, FailedReply, FailedResponse, FailedResponse,
                         FailedResponse)
       \/ UploadFinish(t)
       \/ UploadExcept(t)
       \/ \E m \in Messages \cup {NoMessage} : StreamEnter(t, m)
       \/ QueryAcquire(t)
       \/ \E ok \in BOOLEAN : SimilaritySearch(t, ok)
       \/ QueryReturn(t)
       \/ \E ok \in BOOLEAN : CreateCompletion(t, ok)
       \/ \E c \in Fragments : StreamChunk(t, c)
       \/ StreamFail(t)
       \/ StreamEnd(t)
       \/ \E saved \in BOOLEAN : AppendHistory(t, saved)
       \/ GenerateExcept(t)
       \/ StreamAbandon(t)

Spec == Init /\ [][Next]_vars

\* --------------------------------------- create_db.py under arbitrary callers

\* handle_upload: os.makedirs(CHROMA_PATH, mode=0o777, exist_ok=True), made
\* without the lock
MakeIndexDir(p) ==
  /\ ~chromaDir[p].exists
  /\ unlocked < MaxUnlocked
  /\ unlocked' = unlocked + 1
  /\ chromaDir' = makedirs(chromaDir, p)
  /\ UNCHANGED <<cookie, nextId, reqCount, dataDir, chroma_lock, pc, session,
                 uploaded_file, exc, status>>
  /\ UNCHANGED <<saveVars, streamVars>>
  /\ UNCHANGED searchVars

\* generate_data_store(data_path, chroma_path) reaches save_to_chroma(chunks,
\* chroma_path) with the chunks of some document
CallSave(t, p, f) ==
  /\ CanStart(t)
  /\ reqCount' = reqCount + 1
  /\ session' = [session EXCEPT ![t] = NewSession(p)]
  /\ chunks' = [chunks EXCEPT ![t] = ChunksOfFile(f)]
  /\ pc' = [pc EXCEPT ![t] = "save_lock"]
  /\ UNCHANGED <<cookie, nextId, unlocked, dataDir, chromaDir, chroma_lock, uploaded_file,
                 attempts, fails, built, exc, status>>
  /\ UNCHANGED <<modified, streamVars>>
  /\ UNCHANGED searchVars

\* query_collection(query_text, chroma_path) is called
CallQuery(t, p) ==
  /\ CanStart(t)
  /\ reqCount' = reqCount + 1
  /\ session' = [session EXCEPT ![t] = NewSession(p)]
  /\ pc' = [pc EXCEPT ![t] = "q_lock"]
  /\ UNCHANGED <<cookie, nextId, unlocked, dataDir, chromaDir, chroma_lock, uploaded_file,
                 exc, status>>
  /\ UNCHANGED <<saveVars, streamVars>>
  /\ UNCHANGED searchVars

\* the caller has the result or the exception of save_to_chroma /
\* query_collection and is done with it
CallerReturn(t) ==
  /\ pc[t] \in {"up_indexed", "up_except", "gen_prompt", "gen_except"}
  /\ pc' = [pc EXCEPT ![t] = "idle"]
  /\ DropStreamLocals(t)
  /\ chunks' = [chunks EXCEPT ![t] = {}]
  /\ UNCHANGED <<cookie, nextId, reqCount, unlocked, dataDir, chromaDir, chroma_lock,
                 uploaded_file, attempts, fails, built, modified, status>>
  /\ UNCHANGED searchVars

NextIndex ==
  \/ \E t \in Threads :
       \/ \E p \in Paths, f \in Files : CallSave(t, p, f)
       \/ \E p \in Paths : CallQuery(t, p)
       \/ SaveAcquire(t)
       \/ \E o \in RmtreeOutcomes : SafeDeleteAttempt(t, o)
       \/ \E ok \in BOOLEAN : FromDocuments(t, ok)
       \/ SaveReturn(t)
       \/ QueryAcquire(t)
       \/ \E ok \in BOOLEAN : SimilaritySearch(t, ok)
       \/ QueryReturn(t)
       \/ CallerReturn(t)
  \/ \E p \in Paths : CleanupOldSession(p)
  \/ \E p \in Paths : MakeIndexDir(p)

\* save_to_chroma and query_collection called by any two threads with any
\* paths, next to directory removal and creation that take no lock
SpecIndex == Init /\ [][NextIndex]_vars

\* the steps of a thread inside save_to_chroma or query_collection once it has
\* the lock: the rmtree attempts (at most 5), the embedding and vector-store
\* calls, and the end of the with block
BodyStep(t) ==
  \/ \E o \in RmtreeOutcomes : SafeDeleteAttempt(t, o)
  \/ \E ok \in BOOLEAN : FromDocuments(t, ok)
  \/ SaveReturn(t)
  \/ \E ok \in BOOLEAN : SimilaritySearch(t, ok)
  \/ QueryReturn(t)

\* with chroma_lock: of either function, for a thread that waits for the lock
\* LockStep(t) is enabled each time the lock is free
LockStep(t) == SaveAcquire(t) \/ QueryAcquire(t)

\* SpecIndex under fair scheduling: a thread inside the body is scheduled and
\* its external calls return (weak fairness of BodyStep); a thread that waits
\* for the lock gets it if the lock is free again and again (strong fairness of
\* LockStep). Requests (CallSave, CallQuery) and the directory operations made
\* outside the lock are under no fairness condition
SpecIndexFair ==
  /\ Init
  /\ [][NextIndex]_vars
  /\ \A t \in Threads : WF_vars(BodyStep(t)) /\ SF_vars(LockStep(t))

\* ------------------------------------------ uploads, one request at a time

\* no other thread is serving a request
Alone(t) == \A u \in Threads \ {t} : pc[u] = "idle"

UploadNext ==
  \E t \in Threads :
    /\ Alone(t)
    /\ \/ Serve(t)
       \/ \E f \in Files \cup {NoFile} : UploadEnter(t, f)
       \/ \E o \in RmtreeOutcomes : UploadRmData(t, o)
       \/ \E o \in RmtreeOutcomes : UploadRmChroma(t, o)
       \/ UploadSaveFile(t)
       \/ LoadDocuments(t)
       \/ SaveAcquire(t)
       \/ \E o \in RmtreeOutcomes : SafeDeleteAttempt(t, o)
       \/ \E ok \in BOOLEAN : FromDocuments(t, ok)
       \/ SaveReturn(t)
       \/ UploadSearch(t, FALSE, <<>>, <<>>, FailedReply, FailedResponse, FailedResponse,
                       FailedResponse)
       \/ \E ti \in DocTitles, abstract \in Abstracts, reply \in KeywordReplies :
            \E r1 \in ResponsesTo(reply), r2 \in ResponsesTo(reply),
               r3 \in ResponsesTo(reply) :
              UploadSearch(t, TRUE, ti, abstract, reply, r1, r2, r3)
       \/ UploadFinish(t)
       \/ UploadExcept(t)

\* upload requests served one after the other, with every outcome of title
\* extraction, keyword extraction and the three service calls
SpecUpload == Init /\ [][UploadNext]_vars

\* ---------------------------- search_similar_articles under arbitrary input

\* all sequences over S of length at most n
RECURSIVE SeqsUpTo(_, _)
SeqsUpTo(S, n) ==
  IF n = 0 THEN {<<>>}
  ELSE LET shorter == SeqsUpTo(S, n - 1)
       IN shorter \cup {Append(q, x) : q \in shorter, x \in S}

\* article titles the services return: six different ones, three spellings of
\* the first, and one that contains the first
SearchTitles ==
  {<<"a">>, <<"A">>, <<" ", "a">>, <<"a", "B">>, <<"b">>, <<"c">>, <<"d">>, <<"e">>,
   <<"f">>}

SearchResponses ==
  {FailedResponse} \cup {Response(q) : q \in SeqsUpTo(SearchTitles, MaxResp)}

KeywordLists == {<<>>, <<<<" ">>>>, <<<<"a">>, <<"b">>, <<"c">>>>}

\* uploaded_title arguments; None and '' are both <<>>
UploadedTitles == {<<>>, <<"A", " ">>}

\* search_similar_articles(keywords, uploaded_title) is called
CallSearch(t, kws, ut) ==
  /\ pc[t] = "idle"
  /\ Alone(t)
  /\ search' = [search EXCEPT ![t] = SearchStart(kws, ut)]
  /\ pc' = [pc EXCEPT ![t] = "search"]
  /\ UNCHANGED <<cookie, nextId, reqCount, unlocked, dataDir, chromaDir, chroma_lock,
                 session, uploaded_file, exc, status, title, keywords, similar_articles,
                 answers, lastUpload>>
  /\ UNCHANGED <<saveVars, streamVars>>

\* the stage the call is at runs with the response its service call gets
SearchStep(t, response) ==
  /\ pc[t] = "search"
  /\ search[t].stage \in {"s2_and", "s2_or", "pubmed"}
  /\ search' = [search EXCEPT ![t] =
                  CASE @.stage = "s2_and" -> SemanticScholarAnd(@, response)
                    [] @.stage = "s2_or" -> SemanticScholarOr(@, response)
                    [] @.stage = "pubmed" -> PubMed(@, response)]
  /\ UNCHANGED <<cookie, nextId, reqCount, unlocked, dataDir, chromaDir, chroma_lock, pc,
                 session, uploaded_file, exc, status, title, keywords, similar_articles,
                 answers, lastUpload>>
  /\ UNCHANGED <<saveVars, streamVars>>

\* the caller has the list the call returned
SearchReturn(t) ==
  /\ pc[t] = "search"
  /\ search[t].stage = "returned"
  /\ search' = [search EXCEPT ![t] = NoSearch]
  /\ pc' = [pc EXCEPT ![t] = "idle"]
  /\ UNCHANGED <<cookie, nextId, reqCount, unlocked, dataDir, chromaDir, chroma_lock,
                 session, uploaded_file, exc, status, title, keywords, similar_articles,
                 answers, lastUpload>>
  /\ UNCHANGED <<saveVars, streamVars>>

SearchNext ==
  \E t \in Threads :
    \/ \E kws \in KeywordLists, ut \in UploadedTitles : CallSearch(t, kws, ut)
    \/ \E r \in SearchResponses : SearchStep(t, r)
    \/ SearchReturn(t)

SpecSearch == Init /\ [][SearchNext]_vars

\* ------------------- search_similar_articles with responses of up to 5 titles

\* responses of a service: none, empty, repeats of earlier titles in another
\* spelling, new titles, and one that fills the list on its own
CascadeResponses ==
  {FailedResponse,
   Response(<<>>),
   Response(<<<<"A">>, <<"b">>>>),
   Response(<<<<"b">>, <<" ", "a">>>>),
   Response(<<<<"c">>, <<"d">>>>),
   Response(<<<<"a", "B">>, <<"f">>>>),
   Response(<<<<"A">>, <<"b">>, <<"c">>, <<"d">>, <<"e">>>>)}

CascadeNext ==
  \E t \in Threads :
    \/ \E kws \in KeywordLists, ut \in UploadedTitles : CallSearch(t, kws, ut)
    \/ \E r \in CascadeResponses : SearchStep(t, r)
    \/ SearchReturn(t)

SpecCascade == Init /\ [][CascadeNext]_vars

\* ------------------------------------------------------------------ claims

\* the index path a thread's save_to_chroma / query_collection call is about
PathOf(t) == session[t].CHROMA_PATH

\* the thread is inside the body of save_to_chroma or of query_collection
InBody(t) == pc[t] \in {"save_rmtree", "save_build", "save_done", "q_read", "q_done"}

\* the thread is deleting or building the index directory at p
Rewriting(t, p) ==
  /\ pc[t] \in {"up_rmchroma", "save_rmtree", "save_build"}
  /\ PathOf(t) = p

\* C1: no query_collection call reads an index path while that path is being
\* deleted or rebuilt by an upload: every deletion and every build of a
\* directory a query can target runs under the lock the query holds.
C1_NoQueryWhileRewritten ==
  \A q \in Threads, u \in Threads : pc[q] = "q_read" => ~Rewriting(u, PathOf(q))

\* C2: a query that starts after a save_to_chroma on the same path has returned
\* gets only chunks that were in that rebuild's input.
C2_QueryOnlyFromLastRebuild ==
  \A q \in Threads : pc[q] = "q_done" => relevant_docs[q] \subseteq built[PathOf(q)]

\* C3: when all 5 deletion attempts fail with a file-lock error the rebuild
\* fails: save_to_chroma does not go on to build the index.
C3_LockedFiveTimesRaises ==
  \A t \in Threads : fails[t] = MaxDeleteAttempts => pc[t] \notin {"save_build", "save_done"}

\* C4: when deletion fails with a file-lock error on the first k attempts
\* (k in 0..4) and then succeeds, safe_delete_chroma returns after exactly k+1
\* attempts, at most 5, without raising, and the build that follows leaves at
\* the path exactly the given chunks.
C4_RetryThenRebuild ==
  /\ [](\A t \in Threads :
          attempts[t] = fails[t] + 1 =>
            /\ pc[t] \in {"save_build", "save_done"}
            /\ exc[t] = ""
            /\ attempts[t] <= MaxDeleteAttempts)
  /\ [][\A t \in Threads :
          (pc[t] = "save_build" /\ pc'[t] = "save_done" /\ attempts[t] = fails[t] + 1) =>
            chromaDir'[PathOf(t)] = [exists |-> TRUE, content |-> chunks[t]]]_vars

C4_Witness ==
  \E t \in Threads :
    /\ pc[t] = "save_done"
    /\ fails[t] = 3
    /\ attempts[t] = 4
    /\ chromaDir[PathOf(t)] = [exists |-> TRUE, content |-> chunks[t]]

\* C5: a deletion attempt that fails with an OSError whose errno is not a
\* file-lock one is raised to the caller at that attempt: no retry follows, the
\* index directory is left as it was, nothing is built, the lock is released.
C5_OtherErrorSurfaces ==
  /\ [][\A t \in Threads :
          SafeDeleteAttempt(t, "oserror") =>
            /\ pc'[t] = "up_except"
            /\ exc'[t] = "OSError"
            /\ chroma_lock' = NoThread
            /\ chromaDir' = chromaDir
            /\ built' = built]_vars
  /\ [](\A t \in Threads : pc[t] = "up_except" => chroma_lock # t)

C5_Witness ==
  \E t \in Threads :
    /\ pc[t] = "up_except"
    /\ exc[t] = "OSError"
    /\ chroma_lock = NoThread
    /\ chromaDir[PathOf(t)].exists
    /\ chromaDir[PathOf(t)].content # {}

\* C6: query_collection on a path that does not exist returns an empty result
\* and no error, and makes no embedding or vector-store call.
C6_MissingIndexGivesEmpty ==
  [][\A t \in Threads :
       /\ (pc[t] = "q_lock" /\ pc'[t] # "q_lock" /\ ~chromaDir[PathOf(t)].exists) =>
            /\ pc'[t] = "q_done"
            /\ relevant_docs'[t] = {}
            /\ embedCalls'[t] = 0
            /\ exc'[t] = ""
       /\ (pc[t] = "q_done" /\ pc'[t] # "q_done") =>
            /\ pc'[t] = "gen_prompt"
            /\ exc'[t] = ""
            /\ relevant_docs'[t] = relevant_docs[t]
            /\ embedCalls'[t] = embedCalls[t]]_vars

\* a query found no index at a path where one had been built and was removed
C6_Witness ==
  \E t \in Threads :
    /\ pc[t] = "gen_prompt"
    /\ embedCalls[t] = 0
    /\ relevant_docs[t] = {}
    /\ built[PathOf(t)] # {}
    /\ ~chromaDir[PathOf(t)].exists

\* C7: at most one thread is inside the body of save_to_chroma or
\* query_collection, whatever paths the calls are about, and that thread holds
\* chroma_lock.
C7_OneThreadInBody ==
  \A t \in Threads, u \in Threads :
    InBody(t) => chroma_lock = t /\ (InBody(u) => u = t)

\* a rebuild is in progress while a query on another path waits for the lock
C7_Witness ==
  \E t \in Threads, u \in Threads :
    /\ pc[t] = "save_build"
    /\ pc[u] = "q_lock"
    /\ PathOf(t) # PathOf(u)

\* C8: an upload request without a file leaves the session and the session's
\* directories on disk as they were.
C8_RejectedUploadChangesNothing ==
  [][\A t \in Threads :
       (UploadEnter(t, NoFile) /\ cookie.session_id # 0) =>
         /\ cookie' = cookie
         /\ dataDir' = dataDir
         /\ chromaDir' = chromaDir]_vars

EventsOfType(t, type) == {i \in 1..Len(events[t]) : events[t][i].type = type}

\* C9: when the streaming completion fails, after any number of fragments, the
\* request has emitted exactly one error event and no final event, the
\* request's session still has the history the request started with, and the
\* request ends without writing the session.
C9_FailedStreamKeepsHistory ==
  /\ [](\A t \in Threads :
          (pc[t] = "gen_except" /\ exc[t] = "APIError") =>
            /\ Cardinality(EventsOfType(t, "error")) = 1
            /\ EventsOfType(t, "final") = {}
            /\ events[t][Len(events[t])].type = "error"
            /\ session[t].history = history[t])
  /\ [][\A t \in Threads :
          (pc[t] = "gen_except" /\ pc'[t] # "gen_except") =>
            /\ pc'[t] = "idle"
            /\ cookie' = cookie]_vars

\* a stream of a session with earlier turns failed after a fragment was emitted
C9_Witness ==
  \E t \in Threads :
    /\ pc[t] = "gen_except"
    /\ exc[t] = "APIError"
    /\ full_response[t] # <<>>
    /\ history[t] # <<>>

\* C10: a stream request that completes only appends to the history of the
\* session, whatever other stream requests of the session ran meanwhile: what
\* was in the history stays in it, in place.
C10_HistoryOnlyGrows ==
  [][\A t \in Threads :
       (pc[t] = "gen_final" /\ pc'[t] = "idle" /\ cookie'.session_id = cookie.session_id) =>
         IsPrefix(cookie.history, cookie'.history)]_vars

\* the history is made of (user, assistant) pairs
PairsOnly(h) ==
  /\ Len(h) % 2 = 0
  /\ \A i \in 1..Len(h) : h[i].role = IF i % 2 = 1 THEN "user" ELSE "assistant"

\* positions of a thread inside generate()
GeneratePcs == {"q_lock", "q_read", "q_done", "gen_prompt", "gen_stream", "gen_final",
                "gen_except"}

StreamEvents(frags) == [i \in 1..Len(frags) |-> Event("stream", frags[i])]

C13_MissingMessageEndsRequest ==
  [][\A t \in Threads :
       StreamEnter(t, NoMessage) =>
         /\ status'[t] = "no_message"
         /\ pc'[t] = "idle"
         /\ chroma_lock' = chroma_lock
         /\ embedCalls' = embedCalls
         /\ events' = events
         /\ cookie'.history = cookie.history]_vars

\* the request without a message was made on a session that has a turn
C13_Witness ==
  \E t \in Threads :
    /\ status[t] = "no_message"
    /\ pc[t] = "idle"
    /\ Len(cookie.history) = 2

\* the identity key of a title: lower-cased and trimmed
IdentityKey(ti) == Strip(Lower(ti))

\* no two articles of the list have the same identity key
DistinctKeys(articles) ==
  \A i \in 1..Len(articles), j \in 1..Len(articles) :
    i # j => IdentityKey(articles[i].title) # IdentityKey(articles[j].title)

\* the search_similar_articles call of the thread has returned
Returned(t) == pc[t] = "search" /\ search[t].stage = "returned"

\* C14: no two articles in the list search_similar_articles returns, nor in the
\* list it accumulates over its stages, have the same identity key.
C14_NoTwoArticlesWithOneKey ==
  \A t \in Threads :
    DistinctKeys(search[t].all_articles) /\ DistinctKeys(search[t].result)

\* the three services were called and held more articles than were kept,
\* without an uploaded title; articles of the first and the last are returned
C14_Witness ==
  \E t \in Threads :
    /\ Returned(t)
    /\ search[t].uploaded_title = <<>>
    /\ search[t].contacted = <<"s2_and", "s2_or", "pubmed">>
    /\ search[t].offered = 6
    /\ Len(search[t].result) = 2
    /\ search[t].result[1].link = "s2_and"
    /\ search[t].result[2].link = "pubmed"

\* C15: when the title of the uploaded document is known, no article in the
\* similar_articles of the upload's response has an identity key that contains
\* the identity key of that title.
C15_UploadedDocumentExcluded ==
  \A t \in Threads :
    (pc[t] = "up_respond" /\ title[t] # <<>>) =>
      \A i \in 1..Len(similar_articles[t]) :
        ~Contains(IdentityKey(similar_articles[t][i].title), IdentityKey(title[t]))

\* C16: a stage whose service call fails adds no article and raises nothing,
\* the search goes on to the next stage, and what the call returns is what the
\* stages accumulated, cut to 5.
C16_FailedStageAddsNothing ==
  /\ [][\A t \in Threads :
          SearchStep(t, FailedResponse) =>
            /\ search'[t].all_articles = search[t].all_articles
            /\ pc'[t] = "search"
            /\ search'[t].stage =
                 CASE search[t].stage = "s2_and" -> "s2_or"
                   [] search[t].stage = "s2_or" -> "pubmed"
                   [] OTHER -> "returned"]_vars
  /\ [](\A t \in Threads :
          Returned(t) => search[t].result = Take(search[t].all_articles, 5))

\* the second call failed; articles of the first and of the third are returned
C16_Witness ==
  \E t \in Threads :
    /\ Returned(t)
    /\ search[t].failed = {"s2_or"}
    /\ Len(search[t].result) = 3
    /\ search[t].result[1].link = "s2_and"
    /\ search[t].result[3].link = "pubmed"

\* C17: in the similar_articles of an upload's response, an article whose title
\* holds 2 or more of the keywords, case ignored, never comes after one whose
\* title holds none.
C17_RankedByKeywordScore ==
  \A t \in Threads :
    LET articles == similar_articles[t]
        score(article) ==
          Cardinality({k \in 1..Len(keywords[t]) :
                         Contains(Lower(article.title), Lower(keywords[t][k]))})
    IN pc[t] = "up_respond" =>
         \A i \in 1..Len(articles), j \in 1..Len(articles) :
           (i < j /\ score(articles[i]) = 0) => score(articles[j]) < 2

\* C18: search_similar_articles never returns more than 5 articles.
C18_AtMostFiveArticles ==
  \A t \in Threads : Len(search[t].result) <= 5 /\ Len(similar_articles[t]) <= 5

\* six articles were accumulated and five returned
C18_Witness ==
  \E t \in Threads :
    /\ Returned(t)
    /\ Len(search[t].all_articles) = 6
    /\ Len(search[t].result) = 5

\* C19: when the completion call of the keyword extraction fails, or neither
\* title nor abstract was extracted, the upload answers 200 with no keywords
\* and no articles, has contacted no bibliographic service, and the document
\* is indexed and has_documents set.
C19_NoKeywordsStillSucceeds ==
  /\ [][\A t \in Threads, ti \in DocTitles, abstract \in Abstracts, reply \in KeywordReplies,
          r1 \in UploadResponses, r2 \in UploadResponses, r3 \in UploadResponses :
          (/\ UploadSearch(t, TRUE, ti, abstract, reply, r1, r2, r3)
           /\ (~reply.ok \/ (ti = <<>> /\ abstract = <<>>))) =>
            /\ pc'[t] = "up_respond"
            /\ keywords'[t] = <<>>
            /\ similar_articles'[t] = <<>>
            /\ search'[t].contacted = <<>>
            /\ session'[t].has_documents
            /\ chunks[t] \subseteq chromaDir'[PathOf(t)].content]_vars
  /\ [][\A t \in Threads :
          (pc[t] = "up_respond" /\ pc'[t] # "up_respond") =>
            /\ status'[t] = "200"
            /\ cookie'.has_documents
            /\ cookie'.uploaded_files = <<uploaded_file[t]>>]_vars

\* a title was extracted, no keyword came back, the response is ready
C19_Witness ==
  \E t \in Threads :
    /\ pc[t] = "up_respond"
    /\ title[t] = <<"a">>
    /\ keywords[t] = <<>>
    /\ search[t] = NoSearch
    /\ session[t].has_documents
    /\ chromaDir[PathOf(t)].content # {}

\* positions of a thread inside handle_upload
UploadPcs == {"up_rmdata", "up_rmchroma", "up_mkdirs", "up_load", "save_lock",
              "save_rmtree", "save_build", "save_done", "up_indexed", "up_respond",
              "up_except"}

\* C20: an upload on a session that has an indexed document gets a new session:
\* an id and paths never used before, empty history and file list; no step of
\* the upload changes an index directory other than its own, so the previous
\* session's index stays as it was; after success the session lists the new
\* file only.
C20_UploadReplacesSession ==
  [][\A t \in Threads :
       /\ \A f \in Files :
            (UploadEnter(t, f) /\ cookie.has_documents) =>
              /\ session'[t].session_id >= nextId
              /\ session'[t].DATA_PATH >= nextId
              /\ session'[t].CHROMA_PATH >= nextId
              /\ session'[t].CHROMA_PATH # cookie.CHROMA_PATH
              /\ session'[t].history = <<>>
              /\ session'[t].uploaded_files = <<>>
              /\ ~session'[t].has_documents
              /\ chromaDir'[cookie.CHROMA_PATH] = chromaDir[cookie.CHROMA_PATH]
       /\ (pc[t] \in UploadPcs /\ pc'[t] # pc[t]) =>
            \A p \in Paths \ {PathOf(t)} : chromaDir'[p] = chromaDir[p]
       /\ (pc[t] = "up_respond" /\ pc'[t] = "idle") =>
            cookie'.uploaded_files = <<uploaded_file[t]>>]_vars

\* the second upload of a session is about to answer; the index of the first
\* is still there
C20_Witness ==
  \E t \in Threads :
    /\ pc[t] = "up_respond"
    /\ session[t].session_id = 2
    /\ session[t].history = <<>>
    /\ uploaded_file[t] = "b.pdf"
    /\ chromaDir[1].content = {"a1", "a2"}
    /\ chromaDir[2].content = {"b1"}

\* the order in which search_similar_articles calls the services
StageOrder == <<"s2_and", "s2_or", "pubmed">>

\* C22: the stages are contacted in the order Semantic Scholar AND, Semantic
\* Scholar OR, PubMed; a stage is contacted only while fewer than 5 unique
\* articles are accumulated, and with 5 accumulated the call has returned.
C22_StagesInOrderUntilFive ==
  /\ [](\A t \in Threads : IsPrefix(search[t].contacted, StageOrder))
  /\ [][\A t \in Threads :
          search'[t].contacted # search[t].contacted =>
            \/ search'[t].contacted = <<>>
            \/ /\ search'[t].contacted = Append(search[t].contacted, search[t].stage)
               /\ Len(search[t].all_articles) < 5]_vars
  /\ [](\A t \in Threads :
          Len(search[t].all_articles) >= 5 =>
            search[t].stage = "returned" /\ Len(search[t].result) = 5)

\* five articles after the second stage: PubMed was not contacted
C22_Witness ==
  \E t \in Threads :
    /\ Returned(t)
    /\ search[t].contacted = <<"s2_and", "s2_or">>
    /\ Len(search[t].all_articles) = 5
    /\ search[t].result = search[t].all_articles

\* positions of a response's titles that a merge into the list keeps: the key
\* is not in the list, is not met earlier in the response, and does not contain
\* the key of the uploaded title
KeptPositions(old, titles, ut) ==
  {i \in 1..Len(titles) :
     /\ \A n \in 1..Len(old) : IdentityKey(old[n].title) # IdentityKey(titles[i])
     /\ \A j \in 1..(i - 1) : IdentityKey(titles[j]) # IdentityKey(titles[i])
     /\ ut = <<>> \/ ~Contains(IdentityKey(titles[i]), IdentityKey(ut))}

\* the n-th smallest number of a set
NthOf(S, n) == CHOOSE i \in S : Cardinality({j \in S : j <= i}) = n

\* the list after a stage: what it was, then the kept titles in response order
MergedInOrder(old, titles, source, ut) ==
  LET kept == KeptPositions(old, titles, ut)
  IN old \o [n \in 1..Cardinality(kept) |->
               [title |-> titles[NthOf(kept, n)], link |-> source]]

\* place of the stage an article came from
StageRank(article) ==
  CASE article.link = "s2_and" -> 1
    [] article.link = "s2_or" -> 2
    [] OTHER -> 3

\* C23: a stage appends to the accumulated list the articles of its response
\* in response order, keeping of two articles with one identity key the one met
\* first; the returned list is the start of the accumulated one, articles of an
\* earlier stage before those of a later one.
C23_MergeOrderKept ==
  /\ [][\A t \in Threads, r \in CascadeResponses :
          (r.ok /\ SearchStep(t, r)) =>
            search'[t].all_articles =
              MergedInOrder(search[t].all_articles, r.titles, search[t].stage,
                            search[t].uploaded_title)]_vars
  /\ [](\A t \in Threads :
          /\ IsPrefix(search[t].result, search[t].all_articles)
          /\ \A i \in 1..Len(search[t].result), j \in 1..Len(search[t].result) :
               i < j => StageRank(search[t].result[i]) <= StageRank(search[t].result[j]))

\* "A" and "b" came first, " a" and "b" again from the second stage, "c" and
\* "d" from PubMed: the first spellings are kept, in that order
C23_Witness ==
  \E t \in Threads :
    /\ Returned(t)
    /\ search[t].uploaded_title = <<>>
    /\ search[t].offered = 6
    /\ search[t].result =
         <<[title |-> <<"A">>, link |-> "s2_and"], [title |-> <<"b">>, link |-> "s2_and"],
           [title |-> <<"c">>, link |-> "pubmed"], [title |-> <<"d">>, link |-> "pubmed"]>>

\* the identity keys of the articles of a list
KeysOf(articles) == {IdentityKey(articles[i].title) : i \in 1..Len(articles)}

\* the upload of the thread is of the document answered last, and extraction
\* and the services gave it what they gave then
SameUploadAgain(t) ==
  /\ pc[t] = "up_respond"
  /\ lastUpload.file = uploaded_file[t]
  /\ lastUpload.title = title[t]
  /\ lastUpload.answers = answers[t]

PromptSent(t) == pc[t] \in {"gen_stream", "gen_final"}

\* the labels of the sections of a prompt, in order
LabelsOf(prompt) == [i \in 1..Len(prompt) |-> prompt[i].label]

\* the body of the section with the label, <<>> when there is none
BodyOf(prompt, label) ==
  LET at == {i \in 1..Len(prompt) : prompt[i].label = label}
  IN IF at = {} THEN <<>> ELSE prompt[CHOOSE i \in at : TRUE].body

\* every message of the history as a "User:" or "Assistant:" line
EveryTurn(h) ==
  [i \in 1..Len(h) |->
     [role |-> IF h[i].role = "user" THEN "User" ELSE "Assistant", content |-> h[i].content]]

\* C24: the history section of the prompt holds every turn the session had
\* when the request came, in order, from the first user message on.
C24_PromptHasEveryTurn ==
  \A t \in Threads :
    PromptSent(t) => BodyOf(final_prompt(t), "CONVERSATION HISTORY") = EveryTurn(history[t])

\* C25: the prompt is made of the sections document context, conversation
\* history, user question in that order: the first exactly when the index query
\* gave a chunk, the second exactly when the session had turns, the third
\* always and last; the index is queried only for a session with a document.
C25_PromptSectionsInOrder ==
  \A t \in Threads :
    /\ PromptSent(t) =>
         LabelsOf(final_prompt(t)) =
           (IF relevant_docs[t] # {} THEN <<"DOCUMENT CONTEXT">> ELSE <<>>)
           \o (IF history[t] # <<>> THEN <<"CONVERSATION HISTORY">> ELSE <<>>)
           \o <<"USER QUESTION">>
    /\ PromptSent(t) => BodyOf(final_prompt(t), "USER QUESTION") = user_message[t]
    /\ (PromptSent(t) /\ relevant_docs[t] # {}) =>
         BodyOf(final_prompt(t), "DOCUMENT CONTEXT") = relevant_docs[t]
    /\ pc[t] \in {"q_lock", "q_read", "q_done"} => session[t].has_documents
    /\ (pc[t] \in GeneratePcs /\ ~session[t].has_documents) =>
         embedCalls[t] = 0 /\ relevant_docs[t] = {}

\* a prompt of three sections: chunks were found and the session had a turn
C25_Witness ==
  \E t \in Threads :
    /\ PromptSent(t)
    /\ Len(final_prompt(t)) = 3
    /\ relevant_docs[t] # {}
    /\ Len(history[t]) = 2

\* C26: on an upload the session's data and index directories are gone before
\* they are made again, and a deletion that fails with a file-lock error is
\* tried again: such an error does not end the upload with an error.
C26_LockErrorOnDeleteRetried ==
  /\ [](\A t \in Threads :
          pc[t] = "up_mkdirs" =>
            ~dataDir[session[t].DATA_PATH].exists /\ ~chromaDir[PathOf(t)].exists)
  /\ [][\A t \in Threads :
          (UploadRmData(t, "locked") \/ UploadRmChroma(t, "locked")) =>
            status'[t] # "500"]_vars

\* exceptions create_data raises
BuildFailures == {"OSError", "EmbeddingError", "FileNotFoundError"}

\* C27: has_documents is set in a request's session only right after its
\* create_data returned, and comes into the cookie only from such a session; an
\* upload whose create_data raised finds no stored session with has_documents
\* on its index path and leaves has_documents false; the stream handler
\* queries only for a session with has_documents.
C27_HasDocumentsMeansBuilt ==
  /\ [][\A t \in Threads :
          /\ (pc[t] # "idle" /\ ~session[t].has_documents /\ session'[t].has_documents) =>
               pc[t] = "up_indexed" /\ exc[t] = ""
          /\ (pc[t] # "up_indexed" /\ pc'[t] = "up_indexed") => pc[t] = "save_done"
          /\ (pc[t] # "up_except" /\ pc'[t] = "up_except" /\ exc'[t] \in BuildFailures) =>
               ~(cookie'.has_documents /\ cookie'.CHROMA_PATH = PathOf(t))
          /\ (pc[t] = "up_except" /\ exc[t] \in BuildFailures /\ pc'[t] = "idle") =>
               ~cookie'.has_documents]_vars
  /\ [][(cookie'.has_documents /\ cookie' # cookie) =>
          \E t \in Threads :
            session[t].has_documents /\ cookie'.CHROMA_PATH = PathOf(t)]_vars
  /\ [](\A t \in Threads :
          pc[t] \in {"q_lock", "q_read", "q_done"} => session[t].has_documents)

\* C28: an upload that answers 500 leaves the session with has_documents false
\* and no uploaded file.
C28_ErrorLeavesNoDocument ==
  [][\A t \in Threads :
       (pc[t] \in UploadPcs /\ pc'[t] = "idle" /\ status'[t] = "500") =>
         ~cookie'.has_documents /\ cookie'.uploaded_files = <<>>]_vars

\* the save_to_chroma or query_collection call of the thread is over: it has
\* returned to generate_data_store / generate() or raised into their caller
CallOver(t) == pc[t] \in {"up_indexed", "up_except", "gen_prompt", "gen_except"}

\* C29: chroma_lock is held only by a thread inside the body of save_to_chroma
\* or query_collection, so it is free whenever no rebuild or query executes;
\* every step that leaves the body, by return or by exception, frees the lock;
\* and under fair scheduling every call that waits for the lock, and every
\* call that is inside the body, comes to its end.
C29_LockReleasedAndCallsFinish ==
  /\ [](\A t \in Threads : chroma_lock = t => InBody(t))
  /\ []((\A t \in Threads : ~InBody(t)) => chroma_lock = NoThread)
  /\ [][\A t \in Threads :
          (InBody(t) /\ pc'[t] # pc[t] /\ ~InBody(t)') => chroma_lock' = NoThread]_vars
  /\ \A t \in Threads :
       (pc[t] \in {"save_lock", "q_lock"} \/ InBody(t)) ~> CallOver(t)

\* a rebuild left save_to_chroma by an OSError of the deletion, and a query
\* that was requested has the lock after it
C29_Witness ==
  \E t \in Threads, u \in Threads :
    /\ pc[t] = "up_except"
    /\ exc[t] = "OSError"
    /\ chroma_lock = u
    /\ pc[u] = "q_read"
====
